---- MODULE Spec2Model ----
(***************************************************************************)
(* Buffer and bind-group management of the 2D ray tracer.                  *)
(*                                                                         *)
(* The repository holds two frame loops.  `Game` (src/src/lib.rs) packs    *)
(* the chunk and the material table into one storage buffer by hand.       *)
(* `State` (src/src/state.rs), driven by `App`                             *)
(* (src/src/bin/raytracing_2d.rs), delegates to the gpu_buffers wrappers   *)
(* (BufferGroup, DynamicBuffer, FixedSizeBuffer), whose source is not part *)
(* of src/ and which are modelled here from their contract in spec.md.     *)
(* The variable `prog` says which of the two programs a behaviour runs.    *)
(*                                                                         *)
(* The variable `env` says what the surroundings of the program do between *)
(* frames: with "scene" the scene is edited and no window event but the    *)
(* redraw is delivered; with "input" the scene stays the one the           *)
(* constructor built and the window events are delivered.  No handler of a *)
(* window event reads or writes a field that holds the scene.  With        *)
(* "controls" (the specification InputSpec) the keyboard, mouse, focus and *)
(* resize events and the end of the loop's turn are delivered in full and  *)
(* no redraw: all four movement keys and another one to State, the mouse   *)
(* buttons and the cursor to Game, and a window of any size at startup.    *)
(* With "driver" (the specification DriverSpec) the behaviour of App       *)
(* begins before the loop has resumed it, and the loop suspends and        *)
(* resumes it; everywhere else it begins after the first `resumed`.        *)
(*                                                                         *)
(* Byte lengths are the real ones.  A Vec is modelled by its length, a GPU *)
(* object by the number of the create_* call that made it.  Coordinates    *)
(* are counted in steps of one key press held for one unit of time.        *)
(***************************************************************************)
EXTENDS Integers, Sequences, FiniteSets

VARIABLES
    prog,                   \* "game" (lib.rs) or "state" (state.rs + bin/raytracing_2d.rs)
    env,                    \* "scene", "input", "controls" or "driver": the surroundings
    pc,                     \* position of the running handler; "idle" between handlers
    result,                 \* how the last redraw handler ended
    frames,                 \* redraw handlers started so far
    limits,                 \* Game.limits.min_storage_buffer_offset_alignment
    blocks,                 \* Game.blocks.len()
    materials,              \* Game.materials.len()
    block_storage_buffer,   \* Game.block_storage_buffer: [id, size]
    material_storage_start, \* Game.material_storage_start
    block_bind_group,       \* Game.block_bind_group: [id, entries]
    buffer,                 \* render's local `buffer: Vec<u8>`, by its length
    chunks,                 \* State.chunks.len()
    chunk_buffer,           \* State.chunk_buffer: [buffer: [id, size], bind_group: [id, buffer]]
    camera_buffer,          \* State.camera_buffer: [buffer: [id, size], bind_group: [id, buffer]]
    render_pass,            \* what the pass of the current frame has recorded
    created,                \* create_buffer / create_bind_group calls so far
    log,                    \* the device calls of the current frame, in order
    frame0,                 \* the buffers and bind groups as they were when the frame began
    prev_write,             \* the value of the last completed dynamic-buffer write
    max_len,                \* the largest packed length of the completed writes
    camera_uniform_buffer,  \* Game.camera_uniform_buffer: [id, size]
    camera_bind_group,      \* Game.camera_bind_group: [id, entries]
    block_bind_group_layout,\* Game.block_bind_group_layout: [id]
    render_pipeline,        \* Game.render_pipeline: [id]
    ray_tracing_render_pipeline, \* State.ray_tracing_render_pipeline: [id]
    camera,                 \* Game.camera / State.camera
    camera_data,            \* the bytes the camera buffer holds, as the value written
    key_states,             \* Game.key_states
    surface_config,         \* Game.surface_config / WindowState.surface_config: <<width, height>>
    redraw_requested,       \* window.request_redraw() has been called and not yet served
    loop_ended,             \* the event loop has come to its end since the last redraw handler
    writes,                 \* the queue.write_buffer calls of the current frame, in order
    acquired,               \* the results of get_current_texture in the current handler
    stderr,                 \* lines the current handler has printed with eprintln!
    released,               \* the GPU objects dropped so far, in the order of their drop
    mouse_info,             \* Game.mouse_info: [position, buttons]
    focus_lost,             \* Focused(false) was delivered and no Pressed event since
    last_pressed,           \* State: the last event delivered for the key was Pressed
    control_flow,           \* Game: *control_flow as handle_event left it; App: "Exit"
                            \* once event_loop.exit() has been called
    app,                    \* App.state and App.window_state: TRUE for Some, FALSE for None
    lifecycle               \* where the event loop of App is: "init", "running",
                            \* "suspended" or "exited"

vars == <<prog, env, pc, result, frames, limits, blocks, materials, block_storage_buffer,
          material_storage_start, block_bind_group, buffer, chunks, chunk_buffer,
          camera_buffer, render_pass, created, log, frame0, prev_write, max_len,
          camera_uniform_buffer, camera_bind_group, block_bind_group_layout,
          render_pipeline, ray_tracing_render_pipeline, camera, camera_data, key_states,
          surface_config, redraw_requested, loop_ended, writes, acquired, stderr,
          released, mouse_info, focus_lost, last_pressed, control_flow, app,
          lifecycle>>

gameVars == <<limits, blocks, materials, block_storage_buffer, material_storage_start,
              block_bind_group, buffer>>
stateVars == <<chunks, chunk_buffer, camera_buffer>>
\* the GPU objects that only the constructors assign
fixedVars == <<camera_uniform_buffer, camera_bind_group, block_bind_group_layout,
               render_pipeline, ray_tracing_render_pipeline>>
\* what the window events write
inputVars == <<camera, key_states, surface_config>>
\* the state of the event loop
loopVars == <<redraw_requested, loop_ended>>
\* what is fixed for a behaviour
runVars == <<prog, env>>
\* the Options of App and the event loop that calls App
driverVars == <<app, lifecycle>>
\* what the mouse, focus and key events record
eventVars == <<mouse_info, focus_lost, last_pressed>>

----------------------------------------------------------------------------
(* Bounds of the model *)

\* redraw handlers per behaviour (every Game frame creates a bind group)
MaxFrames == 3
\* rows of blocks the scene may hold
MaxRows == 4
\* materials the scene may hold
MaxMaterials == 2
\* chunks the State scene may hold
MaxChunks == 3
\* stands for u32::MAX, scaled so that a block count above it can be enumerated
U32_MAX == 6
\* results of get_current_texture that are kept of one redraw handler of App
MaxAcquire == 2
\* units of time a key may be held in one direction
MaxSteps == 1

\* values of min_storage_buffer_offset_alignment (a power of two)
Alignments == {32, 256}
\* the keys whose events are delivered
Keys == {"W", "S"}
\* the keys whose events are delivered to State with "controls": the four that
\* State::key handles (state.rs 219-240) and one that it does not
AllKeys == {"W", "S", "A", "D", "Q"}
\* the mouse buttons whose events are delivered
Buttons == {"Left", "Right"}
\* the positions of the cursor that are delivered, in pixels
Cursors == {<<0, 0>>, <<1, 0>>, <<0, 1>>}
\* the window sizes that are delivered (0: a minimized window)
Sizes == {<<0, 0>>, <<2, 1>>}

Max(a, b) == IF a >= b THEN a ELSE b
Min(a, b) == IF a <= b THEN a ELSE b

----------------------------------------------------------------------------
(* Layout of the serialized types (encase ShaderType) *)

\* Alignment::round_up
RoundUp(n, a) == ((n + a - 1) \div a) * a

\* Game.blocks_width
blocks_width == 2

\* Block { material: u32 }: array stride
BlockStride == 4
\* Material { color: Vector3<f32> }: a vec3 is 12 bytes aligned to 16
MaterialStride == 16
\* Chunk: position (vec2<f32>) and size (vec2<u32>) precede the runtime array
ChunkHeaderSize == 16
\* Chunk: alignment of the struct (that of a vec2)
ChunkAlign == 8
\* Camera: 2 * vec2<f32> + 2 * f32
CameraSize == 24

\* <Chunk as ShaderType>::size(): a runtime array holds at least one element
ChunkSize(n) == RoundUp(ChunkHeaderSize + BlockStride * Max(n, 1), ChunkAlign)
\* <Chunk as ShaderType>::min_size()
ChunkMinSize == ChunkSize(0)
\* <&[Material] as ShaderType>::size()
MaterialsSize(n) == MaterialStride * Max(n, 1)
\* <&[Material] as ShaderType>::min_size()
MaterialsMinSize == MaterialStride

----------------------------------------------------------------------------
(* GPU objects *)

\* wgpu::BindGroupEntry { binding, resource } with a BufferBinding { buffer, offset,
\* size: None }
Entry(binding, b, off) == [binding |-> binding, buffer |-> b, offset |-> off]

\* Game::new: the objects made at startup, numbered in creation order
CameraUniformBuffer == [id |-> 1, size |-> CameraSize]
CameraBindGroup == [id |-> 1, entries |-> <<Entry(0, 1, 0)>>]
InitBlockStorageBuffer == [id |-> 2, size |-> ChunkMinSize + MaterialsMinSize]
InitBlockBindGroup == [id |-> 2, entries |-> <<Entry(0, 2, 0), Entry(1, 2, 0)>>]

\* no pass has been begun in this frame
NoPass == [recording |-> FALSE, pipeline |-> FALSE, bind_groups |-> <<>>,
           drawn |-> FALSE, submitted |-> FALSE]
\* no dynamic-buffer write has completed yet
NoWrite == [value |-> <<>>, len |-> -1]

\* Game::new: the layout and the pipeline made at startup; the layout by the binding
\* indices of its entries, in the order they are listed
BlockBindGroupLayout == [id |-> 1, entries |-> <<0, 1>>]
RenderPipeline == [id |-> 1]

\* an object in the order of release: its kind, the field that held it and the
\* fields of the buffers it refers to
Dropped(kind, name, refs) == [kind |-> kind, name |-> name, refs |-> refs]

----------------------------------------------------------------------------
(* Game::render, lib.rs 491-609: the pure parts *)

\* (variant: the padding of 526-531 left out)
MaterialStorageStartUnaligned(len, align) == len
\* lib.rs 523-531: the material table starts at the chunk's length rounded up to
\* the device's alignment
MaterialStorageStart(len, align) ==
    LET rem == len % align
    IN  IF rem # 0 THEN len + (align - rem) ELSE len

\* lib.rs 508-510: the assertion on the number of blocks, which panics when false
BlocksAssertion(nb) == nb = 0 \/ nb % blocks_width = 0

\* (variant: the height of the chunk is the number of its blocks)
ChunkHeaderUndivided(nb) == <<blocks_width, nb>>
\* lib.rs 513-518: the size in the header of the chunk, the height by checked_div,
\* which gives None, here 0, for a zero width
ChunkHeader(nb) == <<blocks_width, IF blocks_width = 0 THEN 0 ELSE nb \div blocks_width>>

\* (variant: the tail offset stored before the block count is converted)
PackSceneLateCheck(nb, nm, align, start, chunk_ok, materials_ok) ==
    LET s == MaterialStorageStart(ChunkSize(nb), align)
    IN  IF ~BlocksAssertion(nb)
        THEN [result |-> "AssertionFailed", start |-> start, buffer |-> 0]
        ELSE IF nb > U32_MAX
        THEN [result |-> "TryFromIntError", start |-> s, buffer |-> 0]
        ELSE IF ~chunk_ok
        THEN [result |-> "WriteError", start |-> start, buffer |-> 0]
        ELSE IF ~materials_ok
        THEN [result |-> "WriteError", start |-> s, buffer |-> s]
        ELSE [result |-> "Ok", start |-> s, buffer |-> s + MaterialsSize(nm)]
\* lib.rs 504-535: pack the chunk and the materials into `buffer`.  Returns how the
\* block ends, the value left in material_storage_start and the length of `buffer`.
\* The assertion at 508-510 comes first and ends the program when it fails.
\* u32::try_from(blocks.len()) at 515 fails above u32::MAX; the usize -> u64
\* conversions at 523 and 543 cannot fail.
\* chunk_ok / materials_ok: whether the encase write at 521 / 535 returned Ok.
PackScene(nb, nm, align, start, chunk_ok, materials_ok) ==
    IF ~BlocksAssertion(nb)
    THEN [result |-> "AssertionFailed", start |-> start, buffer |-> 0]
    ELSE IF nb > U32_MAX
    THEN [result |-> "TryFromIntError", start |-> start, buffer |-> 0]
    ELSE IF ~chunk_ok
    THEN [result |-> "WriteError", start |-> start, buffer |-> 0]
    ELSE LET s == MaterialStorageStart(ChunkSize(nb), align)
         IN  IF ~materials_ok
             THEN [result |-> "WriteError", start |-> s, buffer |-> s]
             ELSE [result |-> "Ok", start |-> s, buffer |-> s + MaterialsSize(nm)]

\* (variants: reallocate every frame; >= for >; compare with the whole capacity)
NeedsGrowAlways(len, size) == TRUE
NeedsGrowInclusive(len, size) == len >= size - MaterialsMinSize
NeedsGrowWholeCapacity(len, size) == len > size
\* lib.rs 537-540: the test that decides a reallocation
NeedsGrow(len, size) == len > size - MaterialsMinSize

\* (variant: geometric growth)
GrownSizeDoubled(len) == 2 * len
\* (variant: the new buffer fits the packed bytes exactly)
GrownSizeExact(len) == len
\* lib.rs 543-544: the size of the buffer that replaces the old one
GrownSize(len) == len + MaterialsMinSize

\* (variant: the material table bound at the start of the buffer)
BlockBindGroupEntriesNoOffset(b, start) == <<Entry(0, b, 0), Entry(1, b, 0)>>
\* (variant: both entries at binding 0)
BlockBindGroupEntriesOneBinding(b, start) == <<Entry(0, b, 0), Entry(0, b, start)>>
\* lib.rs 551-572: the two entries of the block bind group
BlockBindGroupEntries(b, start) == <<Entry(0, b, 0), Entry(1, b, start)>>

\* (variants: the bind group built before the growth test; the pass recorded
\* before the buffer is replaced; the camera not written)
GameRenderOrderBindFirst == <<"camera", "chunk", "bind", "grow", "upload", "pass", "submit", "present">>
GameRenderOrderPassFirst == <<"camera", "chunk", "pass", "grow", "bind", "upload", "submit", "present">>
GameRenderOrderNoCamera == <<"chunk", "grow", "bind", "upload", "pass", "submit", "present">>
\* lib.rs 493-606 (+ 439): the statements of a frame, in program order
GameRenderOrder == <<"camera", "chunk", "grow", "bind", "upload", "pass", "submit", "present">>

\* the statement after `step` in `order`; "idle" after the last
After(order, step) ==
    LET i == CHOOSE k \in 1..Len(order) : order[k] = step
    IN  IF i = Len(order) THEN "idle" ELSE order[i + 1]


\* (variant: every failed acquisition skips the frame)
GameOnTextureSkipAll(texture) ==
    IF texture = "Ok" THEN "render" ELSE "skip"
\* lib.rs 423-431: what the redraw handler does with the result of
\* get_current_texture
GameOnTexture(texture) ==
    CASE texture = "Ok" -> "render"
      [] texture \in {"Timeout", "Outdated"} -> "skip"
      [] OTHER -> "bail"

\* lib.rs 495: the scratch array the camera is serialized into
CameraScratchSize == CameraSize

\* (variant: only the two positions are uploaded)
CameraWriteCallPartial(b, value, held) ==
    [buffer |-> b.id, offset |-> 0, len |-> CameraSize - 8, rewrite |-> value = held]
\* lib.rs 493-500: queue.write_buffer(&camera_uniform_buffer, 0, &buffer), where
\* `buffer` is the whole scratch array.  `rewrite` records whether the bytes are
\* those the buffer already holds.
CameraWriteCall(b, value, held) ==
    [buffer |-> b.id, offset |-> 0, len |-> CameraScratchSize, rewrite |-> value = held]

\* lib.rs 573-574: queue.write_buffer(&block_storage_buffer, 0, &buffer)
StorageWriteCall(b, len) == [buffer |-> b.id, offset |-> 0, len |-> len]

\* the greatest common divisor
RECURSIVE Gcd(_, _)
Gcd(a, b) == IF b = 0 THEN a ELSE Gcd(b, a % b)
\* width as f32 / height as f32, as a fraction in lowest terms; with a zero height
\* <<1, 0>> is the infinity and <<0, 0>> the NaN that the division gives
Ratio(w, h) == IF w = 0 /\ h = 0 THEN <<0, 0>> ELSE <<w \div Gcd(w, h), h \div Gcd(w, h)>>

\* lib.rs 611-620: Game::resize
GameResize(cam, new_size) ==
    LET width == Max(new_size[1], 1)
        height == Max(new_size[2], 1)
    IN  [surface_config |-> <<width, height>>,
         camera |-> [cam EXCEPT !.aspect_ratio = Ratio(width, height)]]

\* the key is held down
Pressed(keys, k) == k \in DOMAIN keys /\ keys[k] = "Pressed"

\* lib.rs 472-489: Game::update, with ts in units of 1 / PLAYER_SPEED
GameUpdate(cam, keys, ts) ==
    LET y0 == cam.player_position[2]
        y1 == IF Pressed(keys, "W") THEN y0 + ts ELSE y0
        y2 == IF Pressed(keys, "S") THEN y1 - ts ELSE y1
        x0 == cam.player_position[1]
        x1 == IF Pressed(keys, "A") THEN x0 - ts ELSE x0
        x2 == IF Pressed(keys, "D") THEN x1 + ts ELSE x1
    IN  [cam EXCEPT !.player_position = <<x2, y2>>]

\* the sum of two positions of State's camera, and a direction times a number
Plus(a, b) == [i \in 1..2 |-> [j \in 1..2 |-> a[i][j] + b[i][j]]]
Times(a, n) == [i \in 1..2 |-> [j \in 1..2 |-> a[i][j] * n]]
\* the difference of two positions
Minus(a, b) == <<a[1] - b[1], a[2] - b[2]>>
\* lib.rs 361-365: the camera moved by the movement of the cursor in pixels, which
\* are surface_config.height / vertical_view_height to the unit of length; the
\* heights of Sizes divide every movement times the view height
Pan(cam, movement, height) ==
    [cam EXCEPT !.position =
        <<cam.position[1] - (movement[1] * cam.vertical_view_height) \div height,
          cam.position[2] + (movement[2] * cam.vertical_view_height) \div height>>]
\* the camera is within MaxSteps pixels of where it started
InView(cam) ==
    \A i \in 1..2 : /\ -MaxSteps * cam.vertical_view_height <= cam.position[i]
                    /\ cam.position[i] <= MaxSteps * cam.vertical_view_height

\* the coordinate is within the bound of the model
InRange(v) == \A i \in 1..2 : -MaxSteps <= v[i] /\ v[i] <= MaxSteps

\* lib.rs 60-84: the fields of Game that hold GPU objects, in the order of their
\* declaration, which is the order in which a dropped Game releases them
GameDropOrder ==
    <<Dropped("buffer", "block_storage_buffer", {}),
      Dropped("layout", "block_bind_group_layout", {}),
      Dropped("bind_group", "block_bind_group", {"block_storage_buffer"}),
      Dropped("buffer", "camera_uniform_buffer", {}),
      Dropped("bind_group", "camera_bind_group", {"camera_uniform_buffer"}),
      Dropped("pipeline", "render_pipeline", {}),
      Dropped("queue", "queue", {}),
      Dropped("device", "device", {}),
      Dropped("adapter", "adapter", {}),
      Dropped("surface", "surface", {}),
      Dropped("instance", "instance", {})>>

----------------------------------------------------------------------------
(* Initial state: Game::new (lib.rs 87-311), State::new (state.rs 69-194) *)

Snapshot == [block_storage_buffer |-> block_storage_buffer,
             material_storage_start |-> material_storage_start,
             block_bind_group |-> block_bind_group,
             chunk_buffer |-> chunk_buffer,
             camera_buffer |-> camera_buffer]

\* GpuCamera: vec2<f32> + 2 * f32
GpuCameraSize == 16
\* state.rs Chunk: [Cell; 4] of 16 bytes each, then a vec2, rounded up to 16
GpuChunkStride == 80

\* <Vec<Chunk> as ShaderType>::size()
ChunksSize(n) == GpuChunkStride * Max(n, 1)

InitCameraBuffer ==
    [buffer |-> [id |-> 1, size |-> GpuCameraSize],
     bind_group |-> [id |-> 1, entries |-> <<Entry(0, 1, 0)>>]]
InitChunkBuffer ==
    [buffer |-> [id |-> 2, size |-> ChunksSize(1)],
     bind_group |-> [id |-> 2, entries |-> <<Entry(0, 2, 0)>>]]

\* the size of the window when the program starts
InitSize == <<2, 1>>

\* lib.rs 291-296: Game.camera in a window of the inner size `size` (lib.rs 119), the
\* positions as displacements from where they start
InitGameCamera(size) ==
    [position |-> <<0, 0>>, player_position |-> <<0, 0>>,
     aspect_ratio |-> Ratio(size[1], size[2]), vertical_view_height |-> 10]
\* lib.rs 308: MouseInfo::default()
InitMouseInfo == [position |-> <<0, 0>>, buttons |-> [b \in Buttons |-> "None"]]
\* state.rs 70-78: State.camera.  A coordinate <<a, b>> of the position stands for
\* a + b / sqrt(2): a is moved along an axis, b along a diagonal.
InitStateCamera ==
    [position |-> <<<<0, 0>>, <<0, 0>>>>, height |-> 4,
     up |-> FALSE, down |-> FALSE, left |-> FALSE, right |-> FALSE]

\* state.rs 39-56: GpuCamera::from_camera, the half height as the height it halves
from_camera(cam, aspect) ==
    [position |-> cam.position, half_height |-> cam.height, aspect |-> aspect]

\* lib.rs 139-144: the camera uniform buffer is created without contents
Zeroed == [zeroed |-> TRUE]

\* the state after construction when the surroundings are `e`
Start(e) ==
    /\ prog \in {"game", "state"}
    /\ env = e
    /\ pc = "idle"
    /\ result = "none"
    /\ frames = 0
    /\ limits \in (IF prog = "game" /\ env = "scene" THEN Alignments ELSE {256})
    /\ blocks = 4
    /\ materials = 3
    /\ block_storage_buffer = InitBlockStorageBuffer
    /\ material_storage_start = 0
    /\ block_bind_group = InitBlockBindGroup
    /\ buffer = 0
    /\ chunks = 1
    /\ chunk_buffer = InitChunkBuffer
    /\ camera_buffer = InitCameraBuffer
    /\ render_pass = NoPass
    /\ created = [buffers |-> 2, bind_groups |-> 2]
    /\ log = <<>>
    /\ frame0 = [block_storage_buffer |-> InitBlockStorageBuffer,
                 material_storage_start |-> 0,
                 block_bind_group |-> InitBlockBindGroup,
                 chunk_buffer |-> InitChunkBuffer,
                 camera_buffer |-> InitCameraBuffer]
    /\ prev_write = NoWrite
    /\ max_len = 0
    /\ camera_uniform_buffer = CameraUniformBuffer
    /\ camera_bind_group = CameraBindGroup
    /\ block_bind_group_layout = BlockBindGroupLayout
    /\ render_pipeline = RenderPipeline
    /\ ray_tracing_render_pipeline = RenderPipeline
    /\ \E size \in (IF e = "controls" THEN Sizes ELSE {InitSize}) :
          /\ camera = IF prog = "game" THEN InitGameCamera(size) ELSE InitStateCamera
          \* lib.rs 129-130, raytracing_2d.rs 46-56
          /\ surface_config = <<Max(size[1], 1), Max(size[2], 1)>>
    /\ camera_data = IF prog = "game" THEN Zeroed ELSE from_camera(InitStateCamera, <<1, 1>>)
    /\ key_states = [k \in Keys |-> "None"]
    /\ redraw_requested = FALSE
    /\ loop_ended = FALSE
    /\ writes = <<>>
    /\ acquired = <<>>
    /\ stderr = 0
    /\ released = <<>>
    /\ mouse_info = InitMouseInfo
    /\ focus_lost = FALSE
    /\ last_pressed = [k \in AllKeys |-> FALSE]
    /\ control_flow = "Poll"
    \* raytracing_2d.rs 257-266: state: Some(state), window_state: None, and
    \* Some(WindowState) once `resumed` has run
    /\ app = [state |-> TRUE, window_state |-> (e # "driver")]
    /\ lifecycle = (IF e = "driver" THEN "init" ELSE "running")

Init == \E e \in {"scene", "input"} : Start(e)
----------------------------------------------------------------------------
(* Game (lib.rs) *)

\* what a handler that is not the redraw handler leaves alone
frameVars == <<result, frames, render_pass, created, log, frame0, prev_write, max_len,
               camera_data, writes, acquired, stderr>>

\* The scene is held in the fields Game.blocks and Game.materials (lib.rs 63-65),
\* which render reads afresh every frame.  Between frames the scene may be edited:
\* any number of rows of blocks_width blocks, any number of materials.
GameEditScene ==
    /\ prog = "game" /\ env = "scene" /\ pc = "idle"
    /\ \E rows \in 0..MaxRows, nm \in 0..MaxMaterials :
          /\ blocks' = rows * blocks_width
          /\ materials' = nm
    /\ UNCHANGED <<runVars, driverVars, control_flow, eventVars, pc, limits, block_storage_buffer,
                   material_storage_start, block_bind_group, buffer, stateVars,
                   frameVars, fixedVars, inputVars, loopVars, released>>

\* lib.rs 323: WindowEvent::CloseRequested sets the control flow to Exit
GameCloseRequested ==
    /\ prog = "game" /\ env = "input" /\ pc = "idle"
    /\ pc' = "exit"
    /\ control_flow' = "Exit"
    /\ UNCHANGED <<runVars, driverVars, eventVars, gameVars, stateVars, frameVars, fixedVars, inputVars,
                   loopVars, released>>

\* (variant: a resize builds the pipeline anew)
GameResizedRebuild ==
    /\ prog = "game" /\ env # "scene" /\ pc = "idle"
    /\ \E new_size \in Sizes :
          LET r == GameResize(camera, new_size)
          IN  /\ surface_config' = r.surface_config
              /\ camera' = r.camera
    /\ render_pipeline' = [id |-> 2]
    /\ control_flow' = "Poll"
    /\ UNCHANGED <<runVars, driverVars, eventVars, pc, gameVars, stateVars, frameVars,
                   camera_uniform_buffer, camera_bind_group, block_bind_group_layout,
                   ray_tracing_render_pipeline, key_states, loopVars, released>>
\* lib.rs 325-329: WindowEvent::Resized and ScaleFactorChanged call resize
GameResized ==
    /\ prog = "game" /\ env # "scene" /\ pc = "idle"
    /\ \E new_size \in Sizes :
          LET r == GameResize(camera, new_size)
          IN  /\ surface_config' = r.surface_config
              /\ camera' = r.camera
    /\ control_flow' = "Poll"
    /\ UNCHANGED <<runVars, driverVars, eventVars, pc, gameVars, stateVars, frameVars, fixedVars,
                   key_states, loopVars, released>>

\* (variant: a pressed key ends the loop)
GameKeyboardInputExit ==
    /\ prog = "game" /\ env # "scene" /\ pc = "idle"
    /\ \E keycode \in Keys, state \in {"Pressed", "Released"} :
          /\ key_states' = [key_states EXCEPT ![keycode] = state]
          /\ focus_lost' = (focus_lost /\ state # "Pressed")
          /\ control_flow' = (IF state = "Pressed" THEN "Exit" ELSE "Poll")
    /\ UNCHANGED <<runVars, driverVars, mouse_info, last_pressed, pc, gameVars, stateVars, frameVars,
                   fixedVars, camera, surface_config, loopVars, released>>
\* lib.rs 332-345: WindowEvent::KeyboardInput records the state of the key
GameKeyboardInput ==
    /\ prog = "game" /\ env # "scene" /\ pc = "idle"
    /\ \E keycode \in Keys, state \in {"Pressed", "Released"} :
          /\ key_states' = [key_states EXCEPT ![keycode] = state]
          /\ focus_lost' = (focus_lost /\ state # "Pressed")
    /\ control_flow' = "Poll"
    /\ UNCHANGED <<runVars, driverVars, mouse_info, last_pressed, pc, gameVars, stateVars, frameVars,
                   fixedVars, camera, surface_config, loopVars, released>>

\* lib.rs 370-378: WindowEvent::MouseInput records the state of the button
GameMouseInput ==
    /\ prog = "game" /\ env = "controls" /\ pc = "idle"
    /\ \E button \in Buttons, state \in {"Pressed", "Released"} :
          /\ mouse_info' = [mouse_info EXCEPT !.buttons[button] = state]
          /\ focus_lost' = (focus_lost /\ state # "Pressed")
    /\ control_flow' = "Poll"
    /\ UNCHANGED <<runVars, driverVars, last_pressed, pc, gameVars, stateVars, frameVars, fixedVars,
                   inputVars, loopVars, released>>

\* (variant: the camera follows the cursor whatever the buttons)
GameCursorMovedAlways ==
    /\ prog = "game" /\ env = "controls" /\ pc = "idle"
    /\ \E position \in Cursors :
          /\ mouse_info' = [mouse_info EXCEPT !.position = position]
          /\ camera' = Pan(camera, Minus(position, mouse_info.position), surface_config[2])
          /\ InView(camera')
    /\ control_flow' = "Poll"
    /\ UNCHANGED <<runVars, driverVars, focus_lost, last_pressed, pc, gameVars, stateVars, frameVars,
                   fixedVars, key_states, surface_config, loopVars, released>>
\* lib.rs 349-367: WindowEvent::CursorMoved stores the position of the cursor and,
\* with the right button held, moves the camera against the cursor's movement
GameCursorMoved ==
    /\ prog = "game" /\ env = "controls" /\ pc = "idle"
    /\ \E position \in Cursors :
          LET previous_position == mouse_info.position
          IN  /\ mouse_info' = [mouse_info EXCEPT !.position = position]
              /\ camera' = IF mouse_info.buttons["Right"] = "Pressed"
                              THEN Pan(camera, Minus(position, previous_position),
                                       surface_config[2])
                              ELSE camera
              /\ InView(camera')
    /\ control_flow' = "Poll"
    /\ UNCHANGED <<runVars, driverVars, focus_lost, last_pressed, pc, gameVars, stateVars, frameVars,
                   fixedVars, key_states, surface_config, loopVars, released>>

\* (variant: the loss of focus forgets the keys and keeps the buttons)
GameFocusLostKeysOnly ==
    /\ prog = "game" /\ env # "scene" /\ pc = "idle"
    /\ key_states' = [k \in Keys |-> "None"]
    /\ focus_lost' = TRUE
    /\ control_flow' = "Poll"
    /\ UNCHANGED <<runVars, driverVars, mouse_info, last_pressed, pc, gameVars, stateVars, frameVars,
                   fixedVars, camera, surface_config, loopVars, released>>
\* lib.rs 414-417: WindowEvent::Focused(false) forgets the buttons and the keys
GameFocusLost ==
    /\ prog = "game" /\ env # "scene" /\ pc = "idle"
    /\ mouse_info' = [mouse_info EXCEPT !.buttons = [b \in Buttons |-> "None"]]
    /\ key_states' = [k \in Keys |-> "None"]
    /\ focus_lost' = TRUE
    /\ control_flow' = "Poll"
    /\ UNCHANGED <<runVars, driverVars, last_pressed, pc, gameVars, stateVars, frameVars, fixedVars,
                   camera, surface_config, loopVars, released>>

\* lib.rs 442-464: Event::MainEventsCleared calls update and requests a redraw
GameMainEventsCleared ==
    /\ prog = "game" /\ env # "scene" /\ pc = "idle"
    /\ \E ts \in 0..MaxSteps :
          /\ InRange(GameUpdate(camera, key_states, ts).player_position)
          /\ camera' = GameUpdate(camera, key_states, ts)
    /\ redraw_requested' = TRUE
    /\ loop_ended' = TRUE
    /\ control_flow' = "Poll"
    /\ UNCHANGED <<runVars, driverVars, eventVars, pc, gameVars, stateVars, frameVars, fixedVars,
                   key_states, surface_config, released>>

\* lib.rs 422-431: Event::RedrawRequested, up to the call of render
GameRedrawRequested ==
    /\ prog = "game" /\ pc = "idle" /\ frames < MaxFrames
    /\ frames' = frames + 1
    /\ log' = <<>>
    /\ writes' = <<>>
    /\ stderr' = 0
    /\ render_pass' = NoPass
    /\ frame0' = Snapshot
    /\ redraw_requested' = FALSE
    /\ loop_ended' = FALSE
    /\ \E texture \in {"Ok", "Timeout", "Outdated", "Lost", "OutOfMemory"} :
          /\ acquired' = <<texture>>
          /\ CASE GameOnTexture(texture) = "render" ->
                      pc' = GameRenderOrder[1] /\ result' = "rendering"
               [] GameOnTexture(texture) = "skip" -> pc' = "idle" /\ result' = "skipped"
               [] OTHER -> pc' = "idle" /\ result' = "SurfaceError"
    /\ control_flow' = "Poll"
    /\ UNCHANGED <<runVars, driverVars, eventVars, gameVars, stateVars, created, prev_write, max_len,
                   camera_data, fixedVars, inputVars, released>>

\* lib.rs 493-500: the camera is serialized and the camera uniform buffer
\* overwritten; a camera that did not fit the scratch array would end render
GameRenderCamera ==
    /\ prog = "game" /\ pc = "camera"
    /\ IF CameraSize > CameraScratchSize
       THEN /\ pc' = "idle"
            /\ result' = "WriteError"
            /\ UNCHANGED <<log, writes, camera_data>>
       ELSE /\ pc' = After(GameRenderOrder, "camera")
            /\ log' = Append(log, "write_camera")
            /\ writes' = Append(writes, CameraWriteCall(camera_uniform_buffer, camera,
                                                        camera_data))
            /\ camera_data' = camera
            /\ UNCHANGED result
    /\ UNCHANGED <<runVars, driverVars, control_flow, eventVars, frames, gameVars, stateVars,
                   render_pass, created, frame0, prev_write, max_len, acquired, stderr,
                   fixedVars, inputVars, loopVars, released>>

\* lib.rs 503-535: the chunk and the materials are packed into `buffer`
GameRenderChunk ==
    /\ prog = "game" /\ pc = "chunk"
    /\ \E chunk_ok \in BOOLEAN, materials_ok \in BOOLEAN :
          LET r == PackScene(blocks, materials, limits, material_storage_start,
                             chunk_ok, materials_ok)
          IN  /\ material_storage_start' = r.start
              /\ buffer' = IF r.result = "Ok" THEN r.buffer ELSE 0
              /\ result' = IF r.result = "Ok" THEN result ELSE r.result
              /\ pc' = IF r.result = "Ok" THEN After(GameRenderOrder, "chunk") ELSE "idle"
    /\ UNCHANGED <<runVars, driverVars, control_flow, eventVars, frames, limits, blocks, materials,
                   block_storage_buffer, block_bind_group, stateVars, render_pass,
                   created, log, frame0, prev_write, max_len, camera_data, writes,
                   acquired, stderr, fixedVars, inputVars, loopVars, released>>

\* lib.rs 537-548: the storage buffer is replaced when the packed bytes do not fit
GameRenderGrow ==
    /\ prog = "game" /\ pc = "grow"
    /\ IF NeedsGrow(buffer, block_storage_buffer.size)
       THEN /\ block_storage_buffer' = [id |-> created.buffers + 1, size |-> GrownSize(buffer)]
            /\ created' = [created EXCEPT !.buffers = @ + 1]
            /\ log' = Append(log, "create_buffer")
       ELSE UNCHANGED <<block_storage_buffer, created, log>>
    /\ pc' = After(GameRenderOrder, "grow")
    /\ UNCHANGED <<runVars, driverVars, control_flow, eventVars, result, frames, limits, blocks,
                   materials, material_storage_start, block_bind_group, buffer,
                   stateVars, render_pass, frame0, prev_write, max_len, camera_data,
                   writes, acquired, stderr, fixedVars, inputVars, loopVars, released>>

\* lib.rs 550-572: the block bind group is created anew
GameRenderBind ==
    /\ prog = "game" /\ pc = "bind"
    /\ block_bind_group' =
          [id |-> created.bind_groups + 1,
           entries |-> BlockBindGroupEntries(block_storage_buffer.id, material_storage_start)]
    /\ created' = [created EXCEPT !.bind_groups = @ + 1]
    /\ log' = Append(log, "create_bind_group")
    /\ pc' = After(GameRenderOrder, "bind")
    /\ UNCHANGED <<runVars, driverVars, control_flow, eventVars, result, frames, limits, blocks,
                   materials, block_storage_buffer, material_storage_start, buffer,
                   stateVars, render_pass, frame0, prev_write, max_len, camera_data,
                   writes, acquired, stderr, fixedVars, inputVars, loopVars, released>>

\* (variant: the packed bytes are uploaded by two calls)
GameRenderUploadTwice ==
    /\ prog = "game" /\ pc = "upload"
    /\ log' = Append(log, "write_storage")
    /\ writes' = writes \o <<StorageWriteCall(block_storage_buffer, material_storage_start),
                             StorageWriteCall(block_storage_buffer, buffer)>>
    /\ prev_write' = [value |-> <<blocks, materials>>, len |-> buffer,
                      header |-> ChunkHeader(blocks)]
    /\ max_len' = Max(max_len, buffer)
    /\ pc' = After(GameRenderOrder, "upload")
    /\ UNCHANGED <<runVars, driverVars, control_flow, eventVars, result, frames, gameVars, stateVars,
                   render_pass, created, frame0, camera_data, acquired, stderr,
                   fixedVars, inputVars, loopVars, released>>
\* lib.rs 573-574: the packed bytes are written to the storage buffer from offset 0
GameRenderUpload ==
    /\ prog = "game" /\ pc = "upload"
    /\ log' = Append(log, "write_storage")
    /\ writes' = Append(writes, StorageWriteCall(block_storage_buffer, buffer))
    /\ prev_write' = [value |-> <<blocks, materials>>, len |-> buffer,
                      header |-> ChunkHeader(blocks)]
    /\ max_len' = Max(max_len, buffer)
    /\ pc' = After(GameRenderOrder, "upload")
    /\ UNCHANGED <<runVars, driverVars, control_flow, eventVars, result, frames, gameVars, stateVars,
                   render_pass, created, frame0, camera_data, acquired, stderr,
                   fixedVars, inputVars, loopVars, released>>

\* lib.rs 577-605: the pass is begun, the pipeline and both bind groups are set,
\* the draw is recorded
GameRenderPass ==
    /\ prog = "game" /\ pc = "pass"
    /\ render_pass' = [recording |-> TRUE, pipeline |-> TRUE,
                       bind_groups |-> <<camera_bind_group, block_bind_group>>,
                       drawn |-> TRUE, submitted |-> FALSE]
    /\ log' = log \o <<"begin_render_pass", "set_pipeline", "set_bind_group",
                       "set_bind_group", "draw">>
    /\ pc' = After(GameRenderOrder, "pass")
    /\ UNCHANGED <<runVars, driverVars, control_flow, eventVars, result, frames, gameVars, stateVars,
                   created, frame0, prev_write, max_len, camera_data, writes, acquired,
                   stderr, fixedVars, inputVars, loopVars, released>>

\* lib.rs 606: the recorded commands are submitted
GameRenderSubmit ==
    /\ prog = "game" /\ pc = "submit"
    /\ render_pass' = [render_pass EXCEPT !.recording = FALSE, !.submitted = TRUE]
    /\ log' = Append(log, "submit")
    /\ pc' = After(GameRenderOrder, "submit")
    /\ UNCHANGED <<runVars, driverVars, control_flow, eventVars, result, frames, gameVars, stateVars,
                   created, frame0, prev_write, max_len, camera_data, writes, acquired,
                   stderr, fixedVars, inputVars, loopVars, released>>

\* lib.rs 437-439: render returned Ok; the frame is presented
GamePresent ==
    /\ prog = "game" /\ pc = "present"
    /\ log' = Append(log, "present")
    /\ result' = "Ok"
    /\ buffer' = 0
    /\ pc' = After(GameRenderOrder, "present")
    /\ UNCHANGED <<runVars, driverVars, control_flow, eventVars, frames, limits, blocks, materials,
                   block_storage_buffer, material_storage_start, block_bind_group,
                   stateVars, render_pass, created, frame0, prev_write, max_len,
                   camera_data, writes, acquired, stderr, fixedVars, inputVars, loopVars,
                   released>>

\* The control flow is Exit: the caller of handle_event leaves the loop and the Game
\* is dropped, its fields in the order of their declaration (lib.rs 60-84)
GameDrop ==
    /\ prog = "game" /\ pc = "exit"
    /\ released' = GameDropOrder
    /\ pc' = "dropped"
    /\ UNCHANGED <<runVars, driverVars, control_flow, eventVars, gameVars, stateVars, frameVars,
                   fixedVars, inputVars, loopVars>>

GameNext ==
    \/ GameEditScene
    \/ GameCloseRequested
    \/ GameResized
    \/ GameKeyboardInput
    \/ GameFocusLost
    \/ GameMainEventsCleared
    \/ GameRedrawRequested
    \/ GameRenderCamera
    \/ GameRenderChunk
    \/ GameRenderGrow
    \/ GameRenderBind
    \/ GameRenderUpload
    \/ GameRenderPass
    \/ GameRenderSubmit
    \/ GamePresent
    \/ GameDrop

----------------------------------------------------------------------------
(* gpu_buffers: FixedSizeBuffer, DynamicBuffer, BufferGroup.  Their source is not *)
(* in src/; they follow spec.md 4.2, 4.3 and 4.4.                                *)

\* DynamicBuffer::write: a serialized length above the capacity allocates a new
\* handle of exactly that length; the result says whether it did
DynamicBufferWrite(b, len, fresh) ==
    IF len > b.size
    THEN [buffer |-> [id |-> fresh, size |-> len], grew |-> TRUE]
    ELSE [buffer |-> b, grew |-> FALSE]

\* BufferGroup::write for a group of one DynamicBuffer: the member is written and
\* the bind group is rebuilt if and only if the member grew
BufferGroupWrite(g, len, fresh_buffer, fresh_group) ==
    LET w == DynamicBufferWrite(g.buffer, len, fresh_buffer)
    IN  [group |-> IF w.grew
                   THEN [buffer |-> w.buffer,
                         bind_group |-> [id |-> fresh_group,
                                         entries |-> <<Entry(0, w.buffer.id, 0)>>]]
                   ELSE g,
         grew |-> w.grew]

\* BufferGroup::write for a group of one FixedSizeBuffer: the buffer is overwritten
\* in place; nothing is replaced
FixedGroupWrite(g) == g

----------------------------------------------------------------------------

\* FixedSizeBuffer::write: the whole buffer is overwritten from offset 0.  `rewrite`
\* records whether the bytes are those the buffer already holds.
FixedSizeBufferWriteCall(b, value, held) ==
    [buffer |-> b.id, offset |-> 0, len |-> b.size, rewrite |-> value = held]

\* DynamicBuffer::write: the serialized bytes are written from offset 0
DynamicBufferWriteCall(b, len) == [buffer |-> b.id, offset |-> 0, len |-> len]

\* a dropped BufferGroup of one buffer held in the field `name` releases its
\* bind group, then its layout, then the buffer
BufferGroupDropOrder(name) ==
    <<Dropped("bind_group", name, {name}),
      Dropped("layout", name, {}),
      Dropped("buffer", name, {})>>

----------------------------------------------------------------------------
(* State (state.rs) driven by App (bin/raytracing_2d.rs) *)

\* state.rs 274-315 (+ raytracing_2d.rs 165-167): the statements of a frame
StateRenderOrder == <<"camera", "chunks", "pass", "submit", "present">>

\* raytracing_2d.rs 140-160: what the redraw handler does with the result of
\* get_current_texture
AppOnTexture(texture) ==
    CASE texture = "Ok" -> "break"
      [] texture = "Timeout" -> "warn"
      [] texture = "Outdated" -> "resize"
      [] texture = "Lost" -> "configure"
      [] OTHER -> "return"

\* raytracing_2d.rs 123-129: the closure `resized`; State::resize (state.rs 265-269)
\* does nothing
resized(size) == <<Max(size[1], 1), Max(size[2], 1)>>

\* (variant: a released key leaves its flag as it is)
StateKeySticky(cam, key, state) ==
    CASE key = "W" /\ state = "Pressed" -> [cam EXCEPT !.up = TRUE]
      [] key = "S" /\ state = "Pressed" -> [cam EXCEPT !.down = TRUE]
      [] key = "A" /\ state = "Pressed" -> [cam EXCEPT !.left = TRUE]
      [] key = "D" /\ state = "Pressed" -> [cam EXCEPT !.right = TRUE]
      [] OTHER -> cam
\* state.rs 219-240: State::key
StateKey(cam, key, state) ==
    CASE key = "W" -> [cam EXCEPT !.up = (state = "Pressed")]
      [] key = "S" -> [cam EXCEPT !.down = (state = "Pressed")]
      [] key = "A" -> [cam EXCEPT !.left = (state = "Pressed")]
      [] key = "D" -> [cam EXCEPT !.right = (state = "Pressed")]
      [] OTHER -> cam

\* cgmath normalize of a direction with components in -1..1 and not both 0: a
\* direction along an axis is left as it is, one along a diagonal has both
\* components divided by sqrt(2)
Normalize(x, y) ==
    IF x # 0 /\ y # 0 THEN <<<<0, x>>, <<0, y>>>> ELSE <<<<x, 0>>, <<y, 0>>>>

\* (variant: the keys of one axis do not cancel: up wins over down, left over right)
StateUpdateFirstWins(cam, ts) ==
    LET x == IF cam.left THEN -1 ELSE IF cam.right THEN 1 ELSE 0
        y == IF cam.up THEN 1 ELSE IF cam.down THEN -1 ELSE 0
    IN  IF x * x + y * y > 0
        THEN [cam EXCEPT !.position = Plus(cam.position, Times(Normalize(x, y), ts))]
        ELSE cam
\* state.rs 196-217: State::update, with ts in units of 1 / CAMERA_SPEED
StateUpdate(cam, ts) ==
    LET x == (IF cam.right THEN 1 ELSE 0) - (IF cam.left THEN 1 ELSE 0)
        y == (IF cam.up THEN 1 ELSE 0) - (IF cam.down THEN 1 ELSE 0)
    IN  IF x * x + y * y > 0
        THEN [cam EXCEPT !.position = Plus(cam.position, Times(Normalize(x, y), ts))]
        ELSE cam

\* the position of State's camera is within the bound of the model
StateInRange(v) ==
    \A i \in 1..2 : \A j \in 1..2 : -MaxSteps <= v[i][j] /\ v[i][j] <= MaxSteps

\* state.rs 58-66: the fields of State in the order of their declaration
StateDropOrder ==
    BufferGroupDropOrder("camera_buffer") \o BufferGroupDropOrder("chunk_buffer")
        \o <<Dropped("pipeline", "ray_tracing_render_pipeline", {})>>
\* raytracing_2d.rs 12-16: the fields of WindowState
WindowStateDropOrder == <<Dropped("window", "window", {}), Dropped("surface", "surface", {})>>
\* raytracing_2d.rs 19-28: the fields of App that still hold an object after exiting
AppDropOrder ==
    <<Dropped("instance", "instance", {}), Dropped("device", "device", {}),
      Dropped("queue", "queue", {})>>

\* The scene is held in the field State.chunks (state.rs 62), which render reads
\* afresh every frame.  Between frames the scene may be edited.
StateEditScene ==
    /\ prog = "state" /\ env = "scene" /\ pc = "idle"
    /\ chunks' \in 0..MaxChunks
    /\ UNCHANGED <<runVars, driverVars, control_flow, eventVars, pc, gameVars, chunk_buffer,
                   camera_buffer, frameVars, fixedVars, inputVars, loopVars, released>>

\* raytracing_2d.rs 132-134: WindowEvent::CloseRequested calls event_loop.exit()
AppCloseRequested ==
    /\ prog = "state" /\ env \in {"input", "driver"} /\ pc = "idle"
    /\ pc' = "exit"
    /\ control_flow' = "Exit"
    /\ UNCHANGED <<runVars, driverVars, eventVars, gameVars, stateVars, frameVars, fixedVars, inputVars,
                   loopVars, released>>

\* raytracing_2d.rs 136: WindowEvent::Resized
AppResized ==
    /\ prog = "state" /\ env # "scene" /\ pc = "idle"
    /\ \E size \in Sizes : surface_config' = resized(size)
    /\ UNCHANGED <<runVars, driverVars, control_flow, eventVars, pc, gameVars, stateVars, frameVars,
                   fixedVars, camera, key_states, loopVars, released>>

\* raytracing_2d.rs 170-172: WindowEvent::Focused calls State::focused
\* (state.rs 248-251), which does nothing
AppFocused ==
    /\ prog = "state" /\ env # "scene" /\ pc = "idle"
    /\ \E focused \in BOOLEAN : focus_lost' = (focus_lost \/ ~focused)
    /\ UNCHANGED <<runVars, driverVars, control_flow, mouse_info, last_pressed, pc, gameVars,
                   stateVars, frameVars, fixedVars, inputVars, loopVars, released>>

\* raytracing_2d.rs 174-183: WindowEvent::KeyboardInput calls State::key
AppKeyboardInput ==
    /\ prog = "state" /\ env # "scene" /\ pc = "idle"
    /\ \E key \in (IF env = "controls" THEN AllKeys ELSE Keys),
          key_state \in {"Pressed", "Released"} :
          /\ camera' = StateKey(camera, key, key_state)
          /\ last_pressed' = [last_pressed EXCEPT ![key] = (key_state = "Pressed")]
          /\ focus_lost' = (focus_lost /\ key_state # "Pressed")
    /\ UNCHANGED <<runVars, driverVars, control_flow, mouse_info, pc, gameVars, stateVars, frameVars,
                   fixedVars, key_states, surface_config, loopVars, released>>

\* raytracing_2d.rs 75-81: about_to_wait calls State::update
AppAboutToWait ==
    /\ prog = "state" /\ env # "scene" /\ pc = "idle"
    /\ \E ts \in 0..MaxSteps :
          /\ StateInRange(StateUpdate(camera, ts).position)
          /\ camera' = StateUpdate(camera, ts)
    /\ loop_ended' = TRUE
    /\ UNCHANGED <<runVars, driverVars, control_flow, eventVars, pc, gameVars, stateVars, frameVars,
                   fixedVars, key_states, surface_config, redraw_requested, released>>

\* raytracing_2d.rs 138: WindowEvent::RedrawRequested enters the acquisition loop
AppRedrawRequested ==
    /\ prog = "state" /\ pc = "idle" /\ frames < MaxFrames
    /\ frames' = frames + 1
    /\ log' = <<>>
    /\ writes' = <<>>
    /\ acquired' = <<>>
    /\ stderr' = 0
    /\ render_pass' = NoPass
    /\ frame0' = Snapshot
    /\ redraw_requested' = FALSE
    /\ loop_ended' = FALSE
    /\ pc' = "acquire"
    /\ result' = "rendering"
    /\ UNCHANGED <<runVars, driverVars, control_flow, eventVars, gameVars, stateVars, created,
                   prev_write, max_len, camera_data, fixedVars, inputVars, released>>

\* the last MaxAcquire entries of a history
Latest(history) ==
    IF Len(history) > MaxAcquire THEN SubSeq(history, Len(history) - MaxAcquire + 1, Len(history))
    ELSE history

\* raytracing_2d.rs 139-161: one turn of the acquisition loop, which has no bound on
\* its turns.  Of the results of the handler the last MaxAcquire are kept, and the
\* printed lines are counted up to MaxAcquire.  With `bounded` the surface gives a
\* texture or ends the handler in its MaxAcquire-th call at the latest.
AppAcquireTurn(bounded) ==
    /\ prog = "state" /\ pc = "acquire"
    /\ \E texture \in {"Ok", "Timeout", "Outdated", "Lost", "OutOfMemory", "Other"} :
          /\ bounded =>
                \/ Len(acquired) + 1 < MaxAcquire
                \/ AppOnTexture(texture) \in {"break", "return"}
          /\ acquired' = Latest(Append(acquired, texture))
          /\ CASE AppOnTexture(texture) = "break" ->
                      /\ pc' = StateRenderOrder[1]
                      /\ UNCHANGED <<result, stderr, surface_config>>
               [] AppOnTexture(texture) = "warn" ->
                      /\ stderr' = Min(stderr + 1, MaxAcquire)
                      /\ UNCHANGED <<pc, result, surface_config>>
               [] AppOnTexture(texture) = "resize" ->
                      /\ \E size \in Sizes : surface_config' = resized(size)
                      /\ UNCHANGED <<pc, result, stderr>>
               [] AppOnTexture(texture) = "configure" ->
                      UNCHANGED <<pc, result, stderr, surface_config>>
               [] OTHER ->
                      /\ stderr' = Min(stderr + 1, MaxAcquire)
                      /\ pc' = "idle"
                      /\ result' = "SurfaceError"
                      /\ UNCHANGED surface_config
    /\ UNCHANGED <<runVars, driverVars, control_flow, eventVars, frames, gameVars, stateVars,
                   render_pass, created, log, frame0, prev_write, max_len, camera_data,
                   writes, fixedVars, camera, key_states, loopVars, released>>
\* the loop as the specification of the frames takes it, and as it is
AppAcquire == AppAcquireTurn(TRUE)
AppAcquireUnbounded == AppAcquireTurn(FALSE)

\* state.rs 272-281: camera_buffer.write, the aspect taken from the texture
StateRenderCamera ==
    /\ prog = "state" /\ pc = "camera"
    /\ camera_buffer' = FixedGroupWrite(camera_buffer)
    /\ LET value == from_camera(camera, Ratio(surface_config[1], surface_config[2]))
       IN  /\ writes' = Append(writes, FixedSizeBufferWriteCall(camera_buffer.buffer, value,
                                                                camera_data))
           /\ camera_data' = value
    /\ log' = Append(log, "write_camera")
    /\ pc' = After(StateRenderOrder, "camera")
    /\ UNCHANGED <<runVars, driverVars, control_flow, eventVars, result, frames, gameVars, chunks,
                   chunk_buffer, render_pass, created, frame0, prev_write, max_len,
                   acquired, stderr, fixedVars, inputVars, loopVars, released>>

\* state.rs 282-283: chunk_buffer.write
StateRenderChunks ==
    /\ prog = "state" /\ pc = "chunks"
    /\ LET w == BufferGroupWrite(chunk_buffer, ChunksSize(chunks),
                                 created.buffers + 1, created.bind_groups + 1)
       IN  /\ chunk_buffer' = w.group
           /\ created' = IF w.grew
                         THEN [buffers |-> created.buffers + 1,
                               bind_groups |-> created.bind_groups + 1]
                         ELSE created
           /\ log' = IF w.grew
                     THEN log \o <<"create_buffer", "write_storage", "create_bind_group">>
                     ELSE Append(log, "write_storage")
           /\ writes' = Append(writes, DynamicBufferWriteCall(w.group.buffer,
                                                              ChunksSize(chunks)))
    /\ prev_write' = [value |-> <<chunks>>, len |-> ChunksSize(chunks)]
    /\ max_len' = Max(max_len, ChunksSize(chunks))
    /\ pc' = After(StateRenderOrder, "chunks")
    /\ UNCHANGED <<runVars, driverVars, control_flow, eventVars, result, frames, gameVars, chunks,
                   camera_buffer, render_pass, frame0, camera_data, acquired, stderr,
                   fixedVars, inputVars, loopVars, released>>

\* state.rs 285-313: the pass is begun, the pipeline and both bind groups are set,
\* the draw is recorded
StateRenderPass ==
    /\ prog = "state" /\ pc = "pass"
    /\ render_pass' = [recording |-> TRUE, pipeline |-> TRUE,
                       bind_groups |-> <<camera_buffer.bind_group, chunk_buffer.bind_group>>,
                       drawn |-> TRUE, submitted |-> FALSE]
    /\ log' = log \o <<"begin_render_pass", "set_pipeline", "set_bind_group",
                       "set_bind_group", "draw">>
    /\ pc' = After(StateRenderOrder, "pass")
    /\ UNCHANGED <<runVars, driverVars, control_flow, eventVars, result, frames, gameVars, stateVars,
                   created, frame0, prev_write, max_len, camera_data, writes, acquired,
                   stderr, fixedVars, inputVars, loopVars, released>>

\* state.rs 315: the recorded commands are submitted
StateRenderSubmit ==
    /\ prog = "state" /\ pc = "submit"
    /\ render_pass' = [render_pass EXCEPT !.recording = FALSE, !.submitted = TRUE]
    /\ log' = Append(log, "submit")
    /\ pc' = After(StateRenderOrder, "submit")
    /\ UNCHANGED <<runVars, driverVars, control_flow, eventVars, result, frames, gameVars, stateVars,
                   created, frame0, prev_write, max_len, camera_data, writes, acquired,
                   stderr, fixedVars, inputVars, loopVars, released>>

\* raytracing_2d.rs 165-167: the frame is presented and the next redraw requested
AppPresent ==
    /\ prog = "state" /\ pc = "present"
    /\ log' = Append(log, "present")
    /\ result' = "Ok"
    /\ redraw_requested' = TRUE
    /\ pc' = After(StateRenderOrder, "present")
    /\ UNCHANGED <<runVars, driverVars, control_flow, eventVars, frames, gameVars, stateVars,
                   render_pass, created, frame0, prev_write, max_len, camera_data,
                   writes, acquired, stderr, fixedVars, inputVars, loop_ended, released>>

\* raytracing_2d.rs 83-88: exiting drops the window state, if there is one, then the
\* State; it is the last call the event loop makes
AppExiting ==
    /\ prog = "state" /\ pc = "exit"
    /\ released' = (IF app.window_state THEN WindowStateDropOrder ELSE <<>>) \o StateDropOrder
    /\ app' = [state |-> FALSE, window_state |-> FALSE]
    /\ lifecycle' = "exited"
    /\ pc' = "exiting"
    /\ UNCHANGED <<runVars, control_flow, eventVars, gameVars, stateVars, frameVars,
                   fixedVars, inputVars, loopVars>>

\* raytracing_2d.rs 257-269: run_app returns and the App is dropped
AppDrop ==
    /\ prog = "state" /\ pc = "exiting"
    /\ released' = released \o AppDropOrder
    /\ pc' = "dropped"
    /\ UNCHANGED <<runVars, driverVars, control_flow, eventVars, gameVars, stateVars, frameVars,
                   fixedVars, inputVars, loopVars>>

StateNext ==
    \/ StateEditScene
    \/ AppCloseRequested
    \/ AppResized
    \/ AppFocused
    \/ AppKeyboardInput
    \/ AppAboutToWait
    \/ AppRedrawRequested
    \/ AppAcquire
    \/ StateRenderCamera
    \/ StateRenderChunks
    \/ StateRenderPass
    \/ StateRenderSubmit
    \/ AppPresent
    \/ AppExiting
    \/ AppDrop

Next == GameNext \/ StateNext

Spec == Init /\ [][Next]_vars


\* App's redraw handler alone, with the acquisition loop as it is: a handler that can
\* take a step does take one (the loop runs on one thread and nothing preempts it for
\* ever), and the surface returns what it likes
AppHandlerStep ==
    \/ AppAcquireUnbounded \/ StateRenderCamera \/ StateRenderChunks \/ StateRenderPass
    \/ StateRenderSubmit \/ AppPresent
AppInit == Start("scene") /\ prog = "state"
AppNext == StateEditScene \/ AppRedrawRequested \/ AppHandlerStep
AppSpec == AppInit /\ [][AppNext]_vars /\ WF_vars(AppHandlerStep)

----------------------------------------------------------------------------
(* The window driver and the event loop that calls it (DriverSpec) *)

\* a failed `expect` ends the program
Panic ==
    /\ pc' = "panicked"
    /\ UNCHANGED <<runVars, driverVars, control_flow, eventVars, gameVars, stateVars,
                   frameVars, fixedVars, inputVars, loopVars, released>>

\* raytracing_2d.rs 76-79, 96-99, 107-121: the handler runs on what `expect` gives it
Expect(present, handler) == IF present THEN handler ELSE Panic

\* raytracing_2d.rs 30-63: resumed drops the window state, creates the window and
\* the surface and stores the new window state.  The loop calls it first of all
\* and after a suspension.
AppResumed ==
    /\ prog = "state" /\ pc = "idle" /\ lifecycle \in {"init", "suspended"}
    /\ lifecycle' = "running"
    /\ app' = [app EXCEPT !.window_state = TRUE]
    /\ \E size \in Sizes : surface_config' = <<Max(size[1], 1), Max(size[2], 1)>>
    /\ UNCHANGED <<runVars, control_flow, eventVars, pc, gameVars, stateVars, frameVars,
                   fixedVars, camera, key_states, loopVars, released>>

\* (variant: a suspension drops the State too)
AppSuspendedDropsState ==
    /\ prog = "state" /\ pc = "idle" /\ lifecycle = "running"
    /\ lifecycle' = "suspended"
    /\ app' = [state |-> FALSE, window_state |-> FALSE]
    /\ UNCHANGED <<runVars, control_flow, eventVars, pc, gameVars, stateVars, frameVars,
                   fixedVars, inputVars, loopVars, released>>
\* raytracing_2d.rs 65-67: suspended drops the window state
AppSuspended ==
    /\ prog = "state" /\ pc = "idle" /\ lifecycle = "running"
    /\ lifecycle' = "suspended"
    /\ app' = [app EXCEPT !.window_state = FALSE]
    /\ UNCHANGED <<runVars, control_flow, eventVars, pc, gameVars, stateVars, frameVars,
                   fixedVars, inputVars, loopVars, released>>

\* raytracing_2d.rs 75-81: about_to_wait, which the loop calls at the end of every
\* turn, suspended or not
AppLoopAboutToWait ==
    /\ prog = "state" /\ pc = "idle" /\ lifecycle # "exited"
    /\ Expect(app.state, AppAboutToWait)

\* raytracing_2d.rs 90-104: device_event; State::mouse_moved (state.rs 257-259) does
\* nothing
AppDeviceEvent ==
    /\ prog = "state" /\ pc = "idle" /\ lifecycle # "exited"
    /\ Expect(app.state, UNCHANGED vars)

\* raytracing_2d.rs 106-121: window_event, which the loop calls for a window that
\* exists, that is between `resumed` and `suspended`
AppWindowEvent ==
    /\ prog = "state" /\ pc = "idle" /\ lifecycle = "running"
    /\ Expect(app.window_state /\ app.state,
              AppCloseRequested \/ AppResized \/ AppFocused \/ AppKeyboardInput)

DriverInit == Start("driver") /\ prog = "state"
DriverNext ==
    \/ AppResumed \/ AppSuspended \/ AppLoopAboutToWait \/ AppDeviceEvent
    \/ AppWindowEvent \/ AppExiting \/ AppDrop
DriverSpec == DriverInit /\ [][DriverNext]_vars

----------------------------------------------------------------------------
(* The specification of the controls: the keyboard, mouse, focus and resize events
   in full, and the end of the loop's turn, without the redraw *)

InputInit == Start("controls")
InputNext ==
    \/ GameResized \/ GameKeyboardInput \/ GameMouseInput \/ GameCursorMoved
    \/ GameFocusLost \/ GameMainEventsCleared
    \/ AppResized \/ AppFocused \/ AppKeyboardInput \/ AppAboutToWait
InputSpec == InputInit /\ [][InputNext]_vars
----------------------------------------------------------------------------
(* Properties *)

\* the device call `tag` has been made in the current frame
Logged(tag) == \E i \in 1..Len(log) : log[i] = tag

\* Game::render is past the growth test of lib.rs 537-548 in the current frame
GameGrowDone == prog = "game" /\ pc \in {"bind", "upload", "pass", "submit", "present"}

\* Game::render replaced the storage buffer in the current frame
GameReplaced == block_storage_buffer.id # frame0.block_storage_buffer.id

\* C1: the storage buffer's capacity is at least the largest packed length written
\* so far, and no step ever lowers it.
C1_CapacityCoversWrites ==
    /\ [](prog = "game" => block_storage_buffer.size >= max_len)
    /\ [][block_storage_buffer'.size >= block_storage_buffer.size]_vars
C1_Witness ==
    /\ prog = "game" /\ pc = "idle" /\ result = "Ok"
    /\ created.buffers >= 4
    /\ prev_write.len < max_len

\* C2: once the frame's buffer write has completed, every entry of the bind group
\* refers to the buffer handle the owner currently holds, and the bind groups the
\* pass has attached are those current bind groups.
C2_BindGroupCurrent ==
    Logged("write_storage") =>
        /\ prog = "game" =>
              /\ \A i \in 1..Len(block_bind_group.entries) :
                    block_bind_group.entries[i].buffer = block_storage_buffer.id
              /\ render_pass.pipeline =>
                    render_pass.bind_groups = <<CameraBindGroup, block_bind_group>>
        /\ prog = "state" =>
              /\ chunk_buffer.bind_group.entries[1].buffer = chunk_buffer.buffer.id
              /\ camera_buffer.bind_group.entries[1].buffer = camera_buffer.buffer.id
              /\ render_pass.pipeline =>
                    render_pass.bind_groups =
                        <<camera_buffer.bind_group, chunk_buffer.bind_group>>
C2_Witness ==
    /\ prog = "game" /\ render_pass.submitted
    /\ GameReplaced
    /\ frame0.block_storage_buffer.id # InitBlockStorageBuffer.id

\* the place of a device call in the frame
Phase(tag) ==
    CASE tag \in {"write_camera", "write_storage", "create_buffer", "create_bind_group"} -> 1
      [] tag = "begin_render_pass" -> 2
      [] tag = "set_pipeline" -> 3
      [] tag = "set_bind_group" -> 4
      [] tag = "draw" -> 5
      [] tag = "submit" -> 6
      [] tag = "present" -> 7

\* C3: in every frame the writes, replacements and rebuilds come first, then the
\* pass is begun, the pipeline set, the bind groups set, then the draw, then the
\* submission; and once the pass has begun no buffer or bind group is replaced.
C3_FrameOrder ==
    /\ [](/\ \A i, j \in 1..Len(log) : i < j => Phase(log[i]) <= Phase(log[j])
          /\ Logged("begin_render_pass") =>
                Logged("write_camera") /\ Logged("write_storage")
          /\ Logged("submit") => Logged("draw"))
    /\ [][Logged("begin_render_pass") =>
             UNCHANGED <<block_storage_buffer, block_bind_group, chunk_buffer,
                         camera_buffer>>]_vars
C3_Witness ==
    /\ prog = "game" /\ pc = "idle" /\ result = "Ok"
    /\ Logged("create_buffer") /\ Logged("submit")

\* C4: the material table's start is a multiple of the device's alignment and does
\* not lie before the end of the chunk.
C4_TailAligned ==
    prog = "game" =>
        /\ material_storage_start % limits = 0
        /\ buffer > 0 => material_storage_start >= ChunkSize(blocks)
C4_Witness ==
    /\ prog = "game" /\ buffer > 0
    /\ material_storage_start > ChunkSize(blocks) + limits \div 2
    /\ limits = 256

C7_RebuildIffGrown ==
    (prog = "game" /\ Logged("write_storage")) =>
        (block_bind_group.id # frame0.block_bind_group.id <=> GameReplaced)

\* Game::render has rebuilt the bind group and not yet written the packed bytes:
\* prev_write is still the write of the frame before
GameBeforeUpload == prog = "game" /\ pc = "upload"

\* C8 as stated: a frame whose packed length equals that of the frame before it,
\* and in which the buffer did not grow, keeps the bind group of the frame before.
C8_NoRebuildWithoutGrowth ==
    (GameBeforeUpload /\ prev_write.len = buffer /\ ~GameReplaced)
        => block_bind_group = frame0.block_bind_group

\* C9: a write of the value that the write before it wrote keeps the handle and
\* the capacity.
C9_SameValueNoAllocation ==
    (GameBeforeUpload /\ prev_write.value = <<blocks, materials>>) =>
        block_storage_buffer = frame0.block_storage_buffer
C9_Witness ==
    /\ GameBeforeUpload
    /\ prev_write.value = <<blocks, materials>>
    /\ frame0.block_storage_buffer.id # InitBlockStorageBuffer.id

\* C10: a render that ends in a failed integer conversion leaves the storage
\* buffer, the stored tail offset and the bind group as they were before the call.
C10_ConversionErrorChangesNothing ==
    (prog = "game" /\ result = "TryFromIntError") =>
        /\ block_storage_buffer = frame0.block_storage_buffer
        /\ material_storage_start = frame0.material_storage_start
        /\ block_bind_group = frame0.block_bind_group
C10_Witness ==
    /\ prog = "game" /\ result = "TryFromIntError" /\ pc = "idle"
    /\ frame0.block_storage_buffer.id # InitBlockStorageBuffer.id


\* the handler has left Game::render / State::render, or never entered it
OutsideRender ==
    /\ prog = "game" => \A i \in 1..Len(GameRenderOrder) : pc # GameRenderOrder[i]
    /\ prog = "state" => \A i \in 1..Len(StateRenderOrder) : pc # StateRenderOrder[i]

\* C12: in Game a lost surface or an exhausted device ends the redraw handler with
\* that error, and a handler that ended with an error acquired once, is no longer
\* in render and presented nothing; in App an acquisition that returned
\* OutOfMemory or Other was the last one of its handler, which presented nothing.
C12_ErrorsEndTheHandler ==
    /\ prog = "game" =>
          /\ (acquired # <<>> /\ acquired[1] \in {"Lost", "OutOfMemory"}) =>
                result = "SurfaceError"
          /\ result \in {"SurfaceError", "WriteError", "TryFromIntError"} =>
                /\ OutsideRender
                /\ Len(acquired) = 1
                /\ ~Logged("present")
    /\ prog = "state" =>
          \A i \in 1..Len(acquired) :
              acquired[i] \in {"OutOfMemory", "Other"} =>
                  /\ i = Len(acquired)
                  /\ pc # "acquire" /\ OutsideRender
                  /\ result = "SurfaceError"
                  /\ ~Logged("present")
C12_Witness ==
    /\ prog = "game" /\ pc = "idle" /\ result = "WriteError"
    /\ Logged("write_camera")
    /\ created.bind_groups > 2

\* C13 as stated: a call of get_current_texture that returns Timeout or Outdated
\* ends the handler at once as a skipped frame: nothing has been recorded or
\* presented, nothing printed, and no buffer, no bind group and no camera state
\* differs from before the call.
C13_SilentSkip ==
    [][(/\ frames' # frames \/ acquired' # acquired
        /\ acquired' # <<>>
        /\ acquired'[Len(acquired')] \in {"Timeout", "Outdated"})
       => /\ pc' = "idle" /\ result' = "skipped"
          /\ log' = <<>> /\ writes' = <<>>
          /\ stderr' = 0
          /\ UNCHANGED <<gameVars, stateVars, fixedVars, camera, camera_data>>]_vars

\* C14 as stated: once the event loop has come to its end after a redraw handler
\* that skipped its frame, a redraw has been requested.
C14_RedrawRequestedAgain ==
    (pc = "idle" /\ result \in {"skipped", "SurfaceError"} /\ loop_ended)
        => redraw_requested

\* C15: the camera uniform buffer is the one Game::new created, as large as the
\* serialized camera, and every write to it starts at offset 0 and is as long as
\* the buffer.
C15_CameraBufferFixed ==
    prog = "game" =>
        /\ camera_uniform_buffer = CameraUniformBuffer
        /\ camera_uniform_buffer.size = CameraSize
        /\ \A i \in 1..Len(writes) :
              writes[i].buffer = camera_uniform_buffer.id =>
                  writes[i].offset = 0 /\ writes[i].len = camera_uniform_buffer.size
C15_Witness ==
    /\ prog = "game" /\ pc = "present"
    /\ writes[1].buffer = camera_uniform_buffer.id
    /\ created.bind_groups > 3

\* render is past its camera write
PastCameraWrite ==
    \/ prog = "game" /\ \E i \in 2..Len(GameRenderOrder) : pc = GameRenderOrder[i]
    \/ prog = "state" /\ \E i \in 2..Len(StateRenderOrder) : pc = StateRenderOrder[i]

\* C16: a render that is past its first statement has written the camera, once
\* and before everything else, whether or not the value differs from the bytes the
\* buffer held; and a frame that has begun its pass wrote the camera before.
C16_CameraWrittenEveryFrame ==
    /\ PastCameraWrite =>
          /\ log # <<>> /\ log[1] = "write_camera"
          /\ writes # <<>>
          /\ writes[1].buffer =
                IF prog = "game" THEN camera_uniform_buffer.id ELSE camera_buffer.buffer.id
    /\ \A j \in 1..Len(log) :
          log[j] = "begin_render_pass" => \E i \in 1..(j - 1) : log[i] = "write_camera"
C16_Witness ==
    /\ Logged("begin_render_pass")
    /\ writes[1].rewrite
    /\ env = "input"

\* C17: no step replaces the pipeline, the bind-group layout, the camera buffer or
\* the camera bind group, and a step that creates an object replaces the storage
\* buffer or the bind group that refers to it.
C17_StartupObjectsKept ==
    [][/\ UNCHANGED fixedVars
       /\ camera_buffer' = camera_buffer
       /\ created' # created =>
             \/ block_storage_buffer' # block_storage_buffer
             \/ block_bind_group' # block_bind_group
             \/ chunk_buffer' # chunk_buffer]_vars
C17_Witness ==
    /\ prog = "game" /\ env = "input" /\ pc = "idle" /\ result = "Ok"
    /\ surface_config # InitSize
    /\ camera.player_position # <<0, 0>>
    /\ created.buffers > 2

\* C18: once Game::render has built the bind group, the offset of binding 1 is the
\* chunk's length rounded up to the alignment, and the material bytes, the last
\* of the packed buffer, begin at that offset.
C18_MaterialBindingOffset ==
    (prog = "game" /\ pc \in {"upload", "pass", "submit", "present"}) =>
        /\ block_bind_group.entries[2].offset =
              MaterialStorageStart(ChunkSize(blocks), limits)
        /\ buffer - MaterialsSize(materials) = block_bind_group.entries[2].offset
C18_Witness ==
    /\ prog = "game" /\ pc = "present" /\ limits = 256
    /\ block_bind_group.entries[2].offset > ChunkSize(blocks)
    /\ frame0.block_bind_group.id # InitBlockBindGroup.id
    /\ blocks # 4

\* C19: a frame writes no buffer twice; a frame that was presented wrote the
\* camera buffer and then the storage buffer and nothing else; and a step outside
\* render writes no buffer and replaces none.
C19_OneWritePerBuffer ==
    /\ [](/\ \A i, j \in 1..Len(writes) : writes[i].buffer = writes[j].buffer => i = j
          /\ Logged("present") =>
                /\ Len(writes) = 2
                /\ writes[1].buffer =
                      IF prog = "game" THEN camera_uniform_buffer.id
                                       ELSE camera_buffer.buffer.id
                /\ writes[2].buffer =
                      IF prog = "game" THEN block_storage_buffer.id
                                       ELSE chunk_buffer.buffer.id)
    /\ [][OutsideRender =>
             /\ writes' = writes \/ writes' = <<>>
             /\ UNCHANGED <<block_storage_buffer, camera_uniform_buffer, chunk_buffer,
                            camera_buffer>>]_vars
C19_Witness ==
    /\ prog = "game" /\ env = "input" /\ pc = "idle"
    /\ Logged("present") /\ loop_ended
    /\ surface_config # InitSize
    /\ key_states["W"] = "Pressed"
    /\ created.buffers > 2

\* C20 as stated: a bind group or pipeline is released before every buffer it
\* refers to, and every buffer before the device.
C20_ReleaseOrder ==
    \A i, j \in 1..Len(released) :
        /\ (/\ released[i].kind = "buffer"
            /\ released[j].kind \in {"bind_group", "pipeline"}
            /\ released[i].name \in released[j].refs) => j < i
        /\ (released[i].kind = "buffer" /\ released[j].kind = "device") => i < j

----------------------------------------------------------------------------
(* Binding indices *)

\* the binding indices of the entries of a bind group, in the order they are listed
Bindings(bind_group) == [i \in 1..Len(bind_group.entries) |-> bind_group.entries[i].binding]

\* C21: in Game, the block bind group built at construction and every one built by a
\* render carries the binding indices 0, 1, ... in the order of its entries, and they
\* are the indices, in number and in order, of the bind-group layout made at startup.
C21_BindingsMatchLayout ==
    prog = "game" =>
        /\ block_bind_group_layout = BlockBindGroupLayout
        /\ Bindings(block_bind_group) = block_bind_group_layout.entries
        /\ \A i \in 1..Len(block_bind_group.entries) :
              block_bind_group.entries[i].binding = i - 1
C21_Witness ==
    /\ prog = "game"
    /\ block_bind_group.id # InitBlockBindGroup.id
    /\ frames > 1
    /\ material_storage_start > 0

----------------------------------------------------------------------------
(* Keyboard, mouse and focus (InputSpec) *)

\* the GPU objects of State and the scene they are filled from
StateObjects == <<chunks, chunk_buffer, camera_buffer, ray_tracing_render_pipeline>>
\* the GPU objects of Game
GameObjects == <<block_storage_buffer, block_bind_group, block_bind_group_layout,
                 camera_uniform_buffer, camera_bind_group, render_pipeline>>
\* the movement flags of State's camera
Flags == <<camera.up, camera.down, camera.left, camera.right>>

\* C22: in State, each of up, down, left, right is true exactly when the last key
\* event for W, S, A, D respectively was Pressed (false if there was none); an event
\* for another key changes nothing of the camera; and a key event changes neither the
\* position of the camera nor the chunks nor a GPU object.
C22_FlagsFollowKeys ==
    /\ [](prog = "state" =>
            /\ camera.up = last_pressed["W"]
            /\ camera.down = last_pressed["S"]
            /\ camera.left = last_pressed["A"]
            /\ camera.right = last_pressed["D"])
    /\ [][(prog = "state" /\ last_pressed' # last_pressed) =>
             /\ camera'.position = camera.position
             /\ UNCHANGED StateObjects
             /\ (last_pressed'["Q"] # last_pressed["Q"] => camera' = camera)]_vars
C22_Witness ==
    /\ prog = "state" /\ env = "controls"
    /\ camera.up /\ ~camera.down /\ camera.left /\ ~camera.right
    /\ last_pressed["Q"]
    /\ focus_lost
    /\ camera.position # InitStateCamera.position

\* the direction State::update moves in: right minus left, up minus down
MoveDirection ==
    <<(IF camera.right THEN 1 ELSE 0) - (IF camera.left THEN 1 ELSE 0),
      (IF camera.up THEN 1 ELSE 0) - (IF camera.down THEN 1 ELSE 0)>>

\* C23: in State, the position of the camera changes only in a state whose net
\* direction is not zero (with no flag set, or with only opposing flags set, it stays),
\* and the step that changes it changes neither the flags nor the chunks nor a GPU
\* object.
C23_UpdateMovesAlongNetDirection ==
    [][(prog = "state" /\ camera'.position # camera.position) =>
          /\ MoveDirection # <<0, 0>>
          /\ Flags' = Flags
          /\ UNCHANGED StateObjects]_vars
C23_Witness ==
    /\ prog = "state" /\ env = "controls"
    /\ camera.up /\ camera.down /\ camera.left /\ ~camera.right
    /\ loop_ended
    /\ camera.position = <<<<-1, 0>>, <<0, 0>>>>

\* Game records no key and no button as pressed
NothingPressed ==
    /\ \A k \in DOMAIN key_states : key_states[k] # "Pressed"
    /\ \A b \in DOMAIN mouse_info.buttons : mouse_info.buttons[b] # "Pressed"

\* C24: in Game, from Focused(false) until the next press of a key or a button no key
\* and no button is recorded as pressed, and neither the position of the player nor
\* the position of the camera changes.
C24_FocusLossReleasesAll ==
    /\ []((prog = "game" /\ focus_lost) => NothingPressed)
    /\ [][(prog = "game" /\ focus_lost /\ focus_lost') =>
             /\ camera'.player_position = camera.player_position
             /\ camera'.position = camera.position]_vars
C24_Witness ==
    /\ prog = "game" /\ env = "controls"
    /\ focus_lost /\ loop_ended
    /\ key_states["W"] = "Released"
    /\ mouse_info.buttons["Right"] = "Released"
    /\ mouse_info.position # InitMouseInfo.position
    /\ camera.position # <<0, 0>>
    /\ camera.player_position # <<0, 0>>

\* C25 as stated: in State, from focused(false) until the next Pressed event no
\* movement flag is true.
C25_FocusLossClearsFlags ==
    (prog = "state" /\ focus_lost) => Flags = <<FALSE, FALSE, FALSE, FALSE>>

\* C26: in Game, a CursorMoved that moves the cursor changes the position of the
\* camera exactly when the right button was last recorded as Pressed, and changes
\* neither the position of the player nor the view height nor a GPU object.
C26_PanOnlyWithRightButton ==
    [][(prog = "game" /\ mouse_info'.position # mouse_info.position) =>
          /\ mouse_info'.position \in Cursors
          /\ mouse_info'.buttons = mouse_info.buttons
          /\ (camera'.position # camera.position) <=> (mouse_info.buttons["Right"] = "Pressed")
          /\ camera'.player_position = camera.player_position
          /\ camera'.vertical_view_height = camera.vertical_view_height
          /\ camera'.aspect_ratio = camera.aspect_ratio
          /\ UNCHANGED GameObjects]_vars
C26_Witness ==
    /\ prog = "game" /\ env = "controls"
    /\ mouse_info.buttons["Right"] = "Pressed"
    /\ mouse_info.buttons["Left"] = "Released"
    /\ mouse_info.position = <<1, 0>>
    /\ camera.position = <<-10, 0>>

\* C29 as stated: the configured surface is at least 1 wide and 1 high in every
\* state, whatever sizes the resize events report, and the aspect ratio of Game's
\* camera is never the quotient of a division by a zero height.
C29_SurfaceAtLeastOne ==
    /\ surface_config[1] >= 1
    /\ surface_config[2] >= 1
    /\ prog = "game" => camera.aspect_ratio[2] # 0

----------------------------------------------------------------------------
(* Leaving the loop *)

\* C27: a handler of Game leaves control_flow at Exit exactly when its event is
\* CloseRequested, and at Poll after every other event; App has called
\* event_loop.exit() exactly when its event is CloseRequested or Destroyed.
C27_ExitOnlyOnClose ==
    [][pc \notin {"exit", "exiting", "dropped"} =>
          /\ (control_flow' = "Exit") <=> (GameCloseRequested \/ AppCloseRequested)
          /\ (control_flow' = "Poll") <=> ~(GameCloseRequested \/ AppCloseRequested)]_vars
C27_Witness ==
    /\ prog = "game"
    /\ control_flow = "Exit"
    /\ frames > 0
    /\ key_states["W"] = "Pressed"
    /\ surface_config # InitSize

\* C28 as stated: a redraw handler of App that has entered the acquisition loop
\* leaves it, whatever results the surface returns.
C28_RedrawTerminates == (pc = "acquire") ~> (pc # "acquire")

----------------------------------------------------------------------------
(* The header of the chunk *)

\* C30: in Game, the header written with the chunk has size.x = blocks_width and
\* size.x * size.y = the number of blocks written, and the assertion that the number
\* of blocks is zero or a multiple of blocks_width holds in every state, so that no
\* render ends by it.
C30_ChunkHeader ==
    prog = "game" =>
        /\ BlocksAssertion(blocks)
        /\ result # "AssertionFailed"
        /\ prev_write.len >= 0 =>
              /\ prev_write.header[1] = blocks_width
              /\ prev_write.header[1] * prev_write.header[2] = prev_write.value[1]
C30_Witness ==
    /\ prog = "game"
    /\ prev_write.len >= 0
    /\ prev_write.value[1] = 6
    /\ prev_write.header = <<2, 3>>
    /\ blocks = 0

----------------------------------------------------------------------------
(* Capacity and the tail of the storage buffer *)

\* Game::render has returned Ok and no other redraw handler has begun since
GameRendered == prog = "game" /\ pc = "idle" /\ result = "Ok"

\* C31: in Game the capacity of the block storage buffer is at least the minimum
\* size of the material array in every state, so that the subtraction of the growth
\* test does not underflow; past the growth test and after a render that returned Ok
\* it is at least the packed length plus that minimum size; and the range that
\* binding 1 of the bind group of such a render covers, from the tail offset to the
\* end of the buffer, is not empty, with no materials at all too.
C31_CapacityAboveMinSize ==
    prog = "game" =>
        /\ block_storage_buffer.size - MaterialsMinSize >= 0
        /\ block_storage_buffer.size >= max_len + MaterialsMinSize
        /\ GameGrowDone => block_storage_buffer.size >= buffer + MaterialsMinSize
        /\ GameRendered =>
              /\ block_storage_buffer.size >= prev_write.len + MaterialsMinSize
              /\ block_bind_group.entries[2].buffer = block_storage_buffer.id
              /\ block_storage_buffer.size - block_bind_group.entries[2].offset > 0
C31_Witness ==
    /\ GameRendered
    /\ prev_write.value[2] = 0
    /\ block_bind_group.entries[2].offset > 0
    /\ prev_write.len = block_bind_group.entries[2].offset + MaterialsMinSize
    /\ block_storage_buffer.size = prev_write.len + MaterialsMinSize
    /\ GameReplaced

\* C32 as stated: between the frames of Game, after a render that returned an error
\* too, material_storage_start is the offset at which binding 1 of the current block
\* bind group is registered, and every entry of that bind group refers to the current
\* block storage buffer.
C32_StartMatchesBinding ==
    (prog = "game" /\ pc = "idle") =>
        /\ material_storage_start = block_bind_group.entries[2].offset
        /\ \A i \in 1..Len(block_bind_group.entries) :
              block_bind_group.entries[i].buffer = block_storage_buffer.id

====
